---------------------------- MODULE Spec2Model ----------------------------
(***************************************************************************)
(* Pointer-input coordination of the aminal terminal emulator:             *)
(*   gui/mouse.go      the pointer dispatcher (capture, routing) and the   *)
(*                     viewport's move and button handlers                 *)
(*   gui/scrollbar.go  the scrollbar's geometry, position model, hit test  *)
(*                     and thumb dragging                                  *)
(*                                                                         *)
(* Pixel coordinates are float32/float64 in the source.  They are modelled *)
(* exactly: integers for window pixels, and reduced fractions (records     *)
(* [n, d], d > 0) for the thumb's top and bottom, which the source gets by *)
(* a division.  float32 rounding is not modelled.                          *)
(***************************************************************************)
EXTENDS Integers, Sequences, FiniteSets, TLC

(***************************************************************************)
(* Exact arithmetic                                                        *)
(***************************************************************************)
Abs(i) == IF i < 0 THEN -i ELSE i

Min(a, b) == IF a <= b THEN a ELSE b

RECURSIVE GCD(_, _)
GCD(a, b) == IF b = 0 THEN Abs(a) ELSE GCD(b, a % Abs(b))

\* The fraction n/d, d # 0, in lowest terms with a positive denominator.
Rat(n, d) ==
  IF d = 1 THEN [n |-> n, d |-> 1]
  ELSE LET g == GCD(n, d)
           s == IF d < 0 THEN -1 ELSE 1
       IN  [n |-> (s * n) \div g, d |-> (s * d) \div g]

RInt(i) == [n |-> i, d |-> 1]

RAdd(a, b) ==
  IF a.d = b.d
  THEN Rat(a.n + b.n, a.d)
  ELSE LET l == (a.d \div GCD(a.d, b.d)) * b.d
       IN  Rat(a.n * (l \div a.d) + b.n * (l \div b.d), l)

RNeg(a) == [n |-> -a.n, d |-> a.d]

RSub(a, b) == RAdd(a, RNeg(b))

RLt(a, b) == a.n * b.d < b.n * a.d

RLe(a, b) == a.n * b.d <= b.n * a.d

\* Go's int(f) of the float f = n/d (d # 0): truncation toward zero.
Trunc(n, d) ==
  LET q == Abs(n) \div Abs(d)
  IN  IF (n < 0) = (d < 0) THEN q ELSE -q

\* n/d (d > 0) rounded to the nearest integer, halves away from zero.
Round(n, d) == Trunc(2 * n + (IF n < 0 THEN -d ELSE d), 2 * d)

\* Go's uint16(i) of an int i: the low 16 bits.
Uint16(i) == i % 65536

(***************************************************************************)
(* glfw's names (github.com/go-gl/glfw/v3.2): MouseButtonLeft is           *)
(* MouseButton1, MouseButtonRight is MouseButton2, MouseButtonMiddle is    *)
(* MouseButton3.                                                           *)
(***************************************************************************)
MouseButtonLeft == 0
MouseButtonRight == 1
MouseButtonMiddle == 2

\* The first of glfw's buttons that no case of the handler names.
MouseButton4 == 3

MouseButton1 == MouseButtonLeft
MouseButton2 == MouseButtonRight
MouseButton3 == MouseButtonMiddle

Press == "Press"
Release == "Release"

\* The value of an interface variable that holds no handler.
nil == "nil"

(***************************************************************************)
(* ScreenRectangle (scrollbar.go)                                          *)
(***************************************************************************)
ScreenRectangle(l, t, r, b) == [left |-> l, top |-> t, right |-> r, bottom |-> b]

RectWidth(sr) == RSub(sr.right, sr.left)

RectHeight(sr) == RSub(sr.bottom, sr.top)

\* Left and top inclusive, right and bottom exclusive.
isInside(sr, x, y) ==
  /\ RLe(sr.left, x) /\ RLt(x, sr.right)
  /\ RLe(sr.top, y) /\ RLt(y, sr.bottom)

getDefaultScrollbarWidth == 20

(***************************************************************************)
(* scrollbar: geometry and position                                        *)
(***************************************************************************)
UpperArrow == "UpperArrow"
UpperSpace == "UpperSpace"
Thumb == "Thumb"
BottomSpace == "BottomSpace"
BottomArrow == "BottomArrow"

\* The thumb's top for the control rectangle `position` and the scroll state.
ThumbTop(position, scrollPosition, maxScrollPosition) ==
  LET arrowHeight == RectWidth(position)
      thumbHeight == RectWidth(position)
      track == RSub(RSub(RectHeight(position), thumbHeight), RAdd(arrowHeight, arrowHeight))
  IN  IF maxScrollPosition # 0
      THEN RAdd(arrowHeight,
                Rat(scrollPosition * track.n, track.d * maxScrollPosition))
      ELSE arrowHeight

\* sb with its three zone rectangles recomputed (control-relative).
recalcElementPositions(sb) ==
  LET arrowHeight == RectWidth(sb.position)
      upper == ScreenRectangle(RInt(0), RInt(0), RectWidth(sb.position), arrowHeight)
      bottom == ScreenRectangle(upper.left, RSub(RectHeight(sb.position), arrowHeight),
                                upper.right, RectHeight(sb.position))
      thumbHeight == RectWidth(sb.position)
      thumbTop == ThumbTop(sb.position, sb.scrollPosition, sb.maxScrollPosition)
  IN  [sb EXCEPT !.positionUpperArrow = upper,
                 !.positionBottomArrow = bottom,
                 !.positionThumb = ScreenRectangle(RInt(0), thumbTop,
                                                   RectWidth(sb.position),
                                                   RAdd(thumbTop, thumbHeight))]

\* The control's rectangle in the window for a gui of the given size.
ResizedPosition(width, height, dpiScale) ==
  ScreenRectangle(RInt(width - getDefaultScrollbarWidth * dpiScale), RInt(1),
                  RInt(width), RInt(height - 1))

resize(sb, width, height, dpiScale) ==
  recalcElementPositions([sb EXCEPT !.position = ResizedPosition(width, height, dpiScale)])

\* A setPosition that stores its arguments without the clamp to max.
SetPositionValuesUnclamped(max, position) ==
  <<IF max <= 0 THEN position ELSE max, position>>

\* The pair <<maxScrollPosition, scrollPosition>> that setPosition stores.
SetPositionValues(max, position) ==
  LET m == IF max <= 0 THEN position ELSE max
      p == IF position > m THEN m ELSE position
  IN  <<m, p>>

setPosition(sb, max, position) ==
  LET v == SetPositionValues(max, position)
  IN  recalcElementPositions([sb EXCEPT !.maxScrollPosition = v[1],
                                        !.scrollPosition = v[2]])

\* A hit test that takes the window's coordinates for the control's.
mouseHitTestInWindowCoordinates(sb, px, py) ==
  LET mouseX == RInt(px)
      mouseY == RInt(py)
      upperSpace == ScreenRectangle(sb.positionThumb.left, sb.positionUpperArrow.bottom,
                                    sb.positionThumb.right, sb.positionThumb.top)
      bottomSpace == [upperSpace EXCEPT !.top = sb.positionThumb.bottom,
                                        !.bottom = sb.positionBottomArrow.top]
  IN  IF isInside(sb.positionUpperArrow, mouseX, mouseY) THEN UpperArrow
      ELSE IF isInside(sb.positionBottomArrow, mouseX, mouseY) THEN BottomArrow
      ELSE IF isInside(bottomSpace, mouseX, mouseY) THEN BottomSpace
      ELSE IF isInside(upperSpace, mouseX, mouseY) THEN UpperSpace
      ELSE Thumb

mouseHitTest(sb, px, py) ==
  LET mouseX == RSub(RInt(px), sb.position.left)
      mouseY == RSub(RInt(py), sb.position.top)
      upperSpace == ScreenRectangle(sb.positionThumb.left, sb.positionUpperArrow.bottom,
                                    sb.positionThumb.right, sb.positionThumb.top)
      bottomSpace == [upperSpace EXCEPT !.top = sb.positionThumb.bottom,
                                        !.bottom = sb.positionBottomArrow.top]
  IN  IF isInside(sb.positionUpperArrow, mouseX, mouseY) THEN UpperArrow
      ELSE IF isInside(sb.positionBottomArrow, mouseX, mouseY) THEN BottomArrow
      ELSE IF isInside(bottomSpace, mouseX, mouseY) THEN BottomSpace
      ELSE IF isInside(upperSpace, mouseX, mouseY) THEN UpperSpace
      ELSE Thumb

sbIsMouseInside(sb, px, py) == isInside(sb.position, RInt(px), RInt(py))

\* The scrollbar that newScrollbar returns.
newScrollbar ==
  recalcElementPositions(
    [position |-> ScreenRectangle(RInt(0), RInt(0), RInt(0), RInt(0)),
     positionUpperArrow |-> ScreenRectangle(RInt(0), RInt(0), RInt(0), RInt(0)),
     positionBottomArrow |-> ScreenRectangle(RInt(0), RInt(0), RInt(0), RInt(0)),
     positionThumb |-> ScreenRectangle(RInt(0), RInt(0), RInt(0), RInt(0)),
     scrollPosition |-> 0,
     maxScrollPosition |-> 0,
     thumbIsDragging |-> FALSE,
     startedDraggingAtPosition |-> 0,
     startedDraggingAtThumbTop |-> RInt(0),
     offsetInThumbY |-> RInt(0),
     scrollPositionDelta |-> 0])

(***************************************************************************)
(* scrollbar: pointer handlers.  A handler's result is the scrollbar after *)
(* it and the calls it made on gui.terminal, in order.                     *)
(***************************************************************************)
ScreenScrollUp(n) == <<"ScreenScrollUp", n>>
ScreenScrollDown(n) == <<"ScreenScrollDown", n>>
ScrollPageUp == <<"ScrollPageUp">>
ScrollPageDown == <<"ScrollPageDown">>

\* Press calls with the two arrows exchanged.
PressCallsArrowsExchanged(part) ==
  CASE part = UpperArrow -> <<ScreenScrollDown(1)>>
    [] part = UpperSpace -> <<ScrollPageUp>>
    [] part = BottomSpace -> <<ScrollPageDown>>
    [] part = BottomArrow -> <<ScreenScrollUp(1)>>
    [] OTHER -> <<>>

\* The terminal calls of a left press on `part`.
PressCalls(part) ==
  CASE part = UpperArrow -> <<ScreenScrollUp(1)>>
    [] part = UpperSpace -> <<ScrollPageUp>>
    [] part = BottomSpace -> <<ScrollPageDown>>
    [] part = BottomArrow -> <<ScreenScrollDown(1)>>
    [] OTHER -> <<>>

\* sb after a left press on the thumb at window height mouseY.
StartDragging(sb, mouseY) ==
  [sb EXCEPT !.thumbIsDragging = TRUE,
             !.startedDraggingAtPosition = sb.scrollPosition,
             !.startedDraggingAtThumbTop = sb.positionThumb.top,
             !.offsetInThumbY = RSub(RSub(RInt(mouseY), sb.position.top),
                                     sb.positionThumb.top),
             !.scrollPositionDelta = 0]

sbMouseButtonCallback(sb, button, action, mouseX, mouseY) ==
  IF button = MouseButtonLeft
  THEN IF action = Press
       THEN LET part == mouseHitTest(sb, mouseX, mouseY)
            IN  [sb |-> IF part = Thumb THEN StartDragging(sb, mouseY) ELSE sb,
                 calls |-> PressCalls(part)]
       ELSE IF action = Release /\ sb.thumbIsDragging
       THEN [sb |-> [sb EXCEPT !.thumbIsDragging = FALSE], calls |-> <<>>]
       ELSE [sb |-> sb, calls |-> <<>>]
  ELSE [sb |-> sb, calls |-> <<>>]

\* maxThumbTop - minThumbTop of mouseMoveCallback: the divisor of the delta.
DragDivisor(sb) ==
  RSub(RSub(sb.positionBottomArrow.top, RectHeight(sb.positionThumb)),
       sb.positionUpperArrow.bottom)

\* newThumbTop - minThumbTop - startedDraggingAtThumbTop for a move to py.
DragOffset(sb, py) ==
  LET local == RSub(RInt(py), sb.position.top)
      minThumbTop == sb.positionUpperArrow.bottom
      newThumbTop == RSub(local, sb.offsetInThumbY)
  IN  RSub(RSub(newThumbTop, minThumbTop), sb.startedDraggingAtThumbTop)

(* int(f) of a float that is +Inf, -Inf or NaN (a division by zero) is     *)
(* implementation-dependent in Go: the smallest int on amd64, the largest  *)
(* or the smallest int or 0 where the conversion saturates.  TLC's         *)
(* integers are 32-bit, so the model keeps 30-bit stand-ins; they have the *)
(* low 16 bits of the 64-bit values, so every uint16 conversion agrees.    *)
IntMin == -(2^30)
IntMax == 2^30 - 1
ImplementationDependentInts == {IntMin, 0, IntMax}

\* The values newPositionDelta can take for a move to py.
NewPositionDeltas(sb, py) ==
  LET x == DragOffset(sb, py)
      h == DragDivisor(sb)
  IN  IF h.n = 0
      THEN ImplementationDependentInts
      ELSE {Trunc(sb.maxScrollPosition * x.n * h.d, x.d * h.n)}

\* The argument the scroll command is given for a difference of scrollLines.
ScrollLinesArg(scrollLines) == Uint16(scrollLines)

\* The terminal calls of a move whose target delta is newPositionDelta.
DragCalls(scrollPositionDelta, newPositionDelta) ==
  IF newPositionDelta > scrollPositionDelta
  THEN <<ScreenScrollDown(ScrollLinesArg(newPositionDelta - scrollPositionDelta))>>
  ELSE IF newPositionDelta < scrollPositionDelta
  THEN <<ScreenScrollUp(ScrollLinesArg(scrollPositionDelta - newPositionDelta))>>
  ELSE <<>>

\* A move handler that follows the pointer whether or not a thumb drag is on.
sbMouseMoveCallbackAlways(sb, px, py, newPositionDelta) ==
  [sb |-> recalcElementPositions([sb EXCEPT !.scrollPositionDelta = newPositionDelta]),
   calls |-> DragCalls(sb.scrollPositionDelta, newPositionDelta)]

\* newPositionDelta is one of NewPositionDeltas(sb, py).
sbMouseMoveCallback(sb, px, py, newPositionDelta) ==
  IF sb.thumbIsDragging
  THEN [sb |-> recalcElementPositions(
                 [sb EXCEPT !.scrollPositionDelta = newPositionDelta]),
        calls |-> DragCalls(sb.scrollPositionDelta, newPositionDelta)]
  ELSE [sb |-> sb, calls |-> <<>>]

(***************************************************************************)
(* The viewport (GUI): the renderer's area, cells and the click count.     *)
(* The renderer is a collaborator: its area is the window left of the      *)
(* scrollbar's strip, and its cells have a fixed size.                     *)
(***************************************************************************)
CellWidth == 10
CellHeight == 20

RendererArea(gui) ==
  [areaX |-> 0, areaY |-> 0,
   areaWidth |-> gui.width - getDefaultScrollbarWidth * gui.dpiScale,
   areaHeight |-> gui.height]

isMouseInside(gui, px, py) ==
  LET r == RendererArea(gui)
  IN  /\ px >= r.areaX /\ px < r.areaX + r.areaWidth
      /\ py >= r.areaY /\ py < r.areaY + r.areaHeight

(* uint16(f) of a negative float is implementation-dependent in Go: the    *)
(* low 16 bits of the integer ("wrap", amd64) or 0 ("saturate").           *)
FloatToUint16(q, conv) ==
  IF q >= 0 THEN Uint16(q)
  ELSE IF conv = "wrap" THEN Uint16(q) ELSE 0

\* The cell <<x, y>> of the window point (px, py).
convertMouseCoordinates(gui, px, py, conv) ==
  LET r == RendererArea(gui)
  IN  <<FloatToUint16((px - r.areaX) \div CellWidth, conv),
        FloatToUint16((py - r.areaY) \div CellHeight, conv)>>

\* The click interval of updateLeftClickCount, in milliseconds.
ClickInterval == 500

\* time.Time{}: every click is at least ClickInterval after it.
ZeroTime == -ClickInterval

\* A click series that a press exactly ClickInterval later still continues.
SameClickSeriesInclusive(gui, x, y, now) ==
  /\ gui.prevLeftClickX = x
  /\ gui.prevLeftClickY = y
  /\ now - gui.leftClickTime <= ClickInterval

\* Whether a left press at cell (x, y) at time now continues the click series.
SameClickSeries(gui, x, y, now) ==
  /\ gui.prevLeftClickX = x
  /\ gui.prevLeftClickY = y
  /\ now - gui.leftClickTime < ClickInterval

updateLeftClickCount(gui, x, y, now) ==
  [gui EXCEPT !.leftClickCount = IF SameClickSeries(gui, x, y, now)
                                 THEN Min(gui.leftClickCount + 1, 3)
                                 ELSE 1,
              !.leftClickTime = now,
              !.prevLeftClickX = x,
              !.prevLeftClickY = y]

\* The GUI fields after construction, for a configuration value.
newGUI(copyAndPasteWithMouse) ==
  [width |-> 0, height |-> 0, dpiScale |-> 1,
   overlay |-> FALSE,
   mouseDown |-> FALSE,
   leftClickCount |-> 0,
   prevLeftClickX |-> 0,
   prevLeftClickY |-> 0,
   leftClickTime |-> ZeroTime,
   mouseMovedAfterSelectionStarted |-> FALSE,
   CopyAndPasteWithMouse |-> copyAndPasteWithMouse]

(***************************************************************************)
(* The viewport's handlers.  `env` holds what the collaborators answer     *)
(* during the event: hint (GetHintAtPosition is not nil), url              *)
(* (GetURLAtPosition is not ""), text (GetSelectedText is not ""), clip    *)
(* (GetClipboardString gives no error), conv (the float conversion).       *)
(* A handler's result is the GUI fields after it, its calls on the         *)
(* collaborators in order, and whether it ended in a panic.                *)
(***************************************************************************)
MouseModeNone == "MouseModeNone"
MouseModeX10 == "MouseModeX10"
MouseModeVT200 == "MouseModeVT200"
MouseModeVT200Highlight == "MouseModeVT200Highlight"
MouseModeButtonEvent == "MouseModeButtonEvent"
MouseModeAnyEvent == "MouseModeAnyEvent"
\* A mode outside the terminal's enum: the default case of the switch.
MouseModeOther == "MouseModeOther"
MouseModes == {MouseModeNone, MouseModeX10, MouseModeVT200,
               MouseModeVT200Highlight, MouseModeButtonEvent, MouseModeAnyEvent,
               MouseModeOther}

ModShift == "ModShift"
ModControl == "ModControl"
ModAlt == "ModAlt"
ModSuper == "ModSuper"

\* The bytes fmt's %c writes for the rune r: its UTF-8 encoding.
Utf8(r) ==
  IF r < 128 THEN <<r>>
  ELSE IF r < 2048 THEN <<192 + (r \div 64), 128 + (r % 64)>>
  ELSE IF r >= 55296 /\ r < 57344 THEN <<239, 191, 189>>
  ELSE IF r < 65536
  THEN <<224 + (r \div 4096), 128 + ((r \div 64) % 64), 128 + (r % 64)>>
  ELSE <<240 + (r \div 262144), 128 + ((r \div 4096) % 64),
         128 + ((r \div 64) % 64), 128 + (r % 64)>>

\* []byte(fmt.Sprintf("\x1b[M%c%c%c", rune(b+32), rune(tx+32), rune(ty+32)))
Packet(b, tx, ty) ==
  <<27, 91, 77>> \o Utf8(b + 32) \o Utf8(tx + 32) \o Utf8(ty + 32)

\* The modifier bits of a VT200 packet.
ModifierBits(mod) ==
  (IF ModShift \in mod THEN 4 ELSE 0)
  + (IF ModSuper \in mod THEN 8 ELSE 0)
  + (IF ModControl \in mod THEN 16 ELSE 0)

\* A button code that tells the buttons apart on release as on press.
VT200ButtonOnly(button, action) ==
  CASE button = MouseButton1 -> 0
    [] button = MouseButton2 -> 1
    [] button = MouseButton3 -> 2
    [] OTHER -> -1

\* The button code of a VT200 packet; -1 where the handler returns early.
VT200Button(button, action) ==
  IF action = Press
  THEN CASE button = MouseButton1 -> 0
         [] button = MouseButton2 -> 1
         [] button = MouseButton3 -> 2
         [] OTHER -> -1
  ELSE IF action = Release THEN 3 ELSE -1

\* A switch whose case for mode None reports presses as mode X10 does.
ReportCallsInModeNone(mode, button, action, mod, tx, ty) ==
  CASE mode \in {MouseModeNone, MouseModeX10} ->
         IF action = Press THEN <<<<"Write", Packet(button, tx, ty)>>>> ELSE <<>>
    [] mode = MouseModeVT200 ->
         IF VT200Button(button, action) >= 0
         THEN <<<<"Write", Packet(VT200Button(button, action) + ModifierBits(mod),
                                  tx, ty)>>>>
         ELSE <<>>
    [] OTHER -> <<>>

\* The end of mouseButtonCallback: the switch on the terminal's mouse mode.
ReportCalls(mode, button, action, mod, tx, ty) ==
  CASE mode = MouseModeX10 ->
         IF action = Press THEN <<<<"Write", Packet(button, tx, ty)>>>> ELSE <<>>
    [] mode = MouseModeVT200 ->
         IF VT200Button(button, action) >= 0
         THEN <<<<"Write", Packet(VT200Button(button, action) + ModifierBits(mod),
                                  tx, ty)>>>>
         ELSE <<>>
    [] OTHER -> <<>>

\* Only the three named modes panic; a mode outside the enum returns.
UnsupportedModeNamed(mode) ==
  mode \in {MouseModeVT200Highlight, MouseModeButtonEvent, MouseModeAnyEvent}

UnsupportedMode(mode) == mode \notin {MouseModeNone, MouseModeX10, MouseModeVT200}

SelectionMode(clickCount) ==
  CASE clickCount = 1 -> "SelectionChar"
    [] clickCount = 2 -> "SelectionWord"
    [] OTHER -> "SelectionLine"

\* A left button whose release launches the URL whether or not it copied.
LeftButtonCopyAndLaunch(gui, action, x, y, now, env) ==
  IF action = Press
  THEN LET g == updateLeftClickCount([gui EXCEPT !.mouseDown = TRUE], x, y, now)
       IN  [gui |-> [g EXCEPT !.mouseMovedAfterSelectionStarted = FALSE],
            calls |-> <<<<"StartSelection", x, y,
                          CASE g.leftClickCount = 1 -> "SelectionChar"
                            [] g.leftClickCount = 2 -> "SelectionWord"
                            [] OTHER -> "SelectionLine">>>>]
  ELSE IF action = Release
  THEN LET moved == \/ gui.mouseMovedAfterSelectionStarted
                    \/ x # gui.prevLeftClickX
                    \/ y # gui.prevLeftClickY
           handled == gui.CopyAndPasteWithMouse /\ env.text
       IN  [gui |-> [gui EXCEPT !.mouseDown = FALSE,
                                !.mouseMovedAfterSelectionStarted = moved],
            calls |-> (IF gui.leftClickCount # 1 \/ moved
                       THEN <<<<"ExtendSelection", x, y, TRUE>>>> ELSE <<>>)
                      \o (IF handled THEN <<<<"SetClipboardString">>>> ELSE <<>>)
                      \o (IF env.url THEN <<<<"launchTarget">>>> ELSE <<>>)]
  ELSE [gui |-> gui, calls |-> <<>>]

\* The left-button part of mouseButtonCallback.
LeftButton(gui, action, x, y, now, env) ==
  IF action = Press
  THEN LET g == updateLeftClickCount([gui EXCEPT !.mouseDown = TRUE], x, y, now)
       IN  [gui |-> [g EXCEPT !.mouseMovedAfterSelectionStarted = FALSE],
            calls |-> <<<<"StartSelection", x, y, SelectionMode(g.leftClickCount)>>>>]
  ELSE IF action = Release
  THEN LET moved == \/ gui.mouseMovedAfterSelectionStarted
                    \/ x # gui.prevLeftClickX
                    \/ y # gui.prevLeftClickY
           handled == gui.CopyAndPasteWithMouse /\ env.text
       IN  [gui |-> [gui EXCEPT !.mouseDown = FALSE,
                                !.mouseMovedAfterSelectionStarted = moved],
            calls |-> (IF gui.leftClickCount # 1 \/ moved
                       THEN <<<<"ExtendSelection", x, y, TRUE>>>> ELSE <<>>)
                      \o (IF handled THEN <<<<"SetClipboardString">>>> ELSE <<>>)
                      \o (IF ~handled /\ env.url THEN <<<<"launchTarget">>>> ELSE <<>>)]
  ELSE [gui |-> gui, calls |-> <<>>]

\* The right-button part of mouseButtonCallback.
RightButton(gui, action, env) ==
  IF gui.CopyAndPasteWithMouse /\ action = Press /\ env.clip
  THEN <<<<"ClearSelection">>, <<"Paste">>>>
  ELSE <<>>

\* A handler whose overlay is removed by the release of any button.
guiMouseButtonCallbackAnyRelease(gui, mode, button, action, mod, mouseX, mouseY, now, env) ==
  IF gui.overlay
  THEN [gui |-> IF action = Release THEN [gui EXCEPT !.overlay = FALSE] ELSE gui,
        calls |-> <<>>, panic |-> FALSE]
  ELSE LET c == convertMouseCoordinates(gui, mouseX, mouseY, env.conv)
           x == c[1]
           y == c[2]
           local == CASE button = MouseButtonLeft -> LeftButton(gui, action, x, y, now, env)
                      [] button = MouseButtonRight ->
                           [gui |-> gui, calls |-> RightButton(gui, action, env)]
                      [] OTHER -> [gui |-> gui, calls |-> <<>>]
       IN  [gui |-> local.gui,
            calls |-> local.calls \o ReportCalls(mode, button, action, mod, x + 1, y + 1),
            panic |-> UnsupportedMode(mode)]

guiMouseButtonCallback(gui, mode, button, action, mod, mouseX, mouseY, now, env) ==
  IF gui.overlay
  THEN [gui |-> IF button = MouseButtonRight /\ action = Release
                THEN [gui EXCEPT !.overlay = FALSE] ELSE gui,
        calls |-> <<>>, panic |-> FALSE]
  ELSE LET c == convertMouseCoordinates(gui, mouseX, mouseY, env.conv)
           x == c[1]
           y == c[2]
           local == CASE button = MouseButtonLeft -> LeftButton(gui, action, x, y, now, env)
                      [] button = MouseButtonRight ->
                           [gui |-> gui, calls |-> RightButton(gui, action, env)]
                      [] OTHER -> [gui |-> gui, calls |-> <<>>]
       IN  [gui |-> local.gui,
            calls |-> local.calls \o ReportCalls(mode, button, action, mod, x + 1, y + 1),
            panic |-> UnsupportedMode(mode)]

guiMouseMoveCallback(gui, px, py, env) ==
  LET c == convertMouseCoordinates(gui, px, py, env.conv)
      x == c[1]
      y == c[2]
  IN  [gui |-> IF gui.mouseDown THEN gui ELSE [gui EXCEPT !.overlay = env.hint],
       calls |-> (IF gui.mouseDown THEN <<<<"ExtendSelection", x, y, FALSE>>>> ELSE <<>>)
                 \o <<<<"SetCursor", IF env.url THEN "hand" ELSE "arrow">>>>]

(***************************************************************************)
(* The pointer dispatcher (globalMouseMoveCallback,                        *)
(* globalMouseButtonCallback, catchMouse).  A handler is nil, "gui" (the   *)
(* viewport) or "vScrollbar".                                              *)
(***************************************************************************)
\* A routing of moves by the pointer's position first, the capture last.
MoveTargetByPosition(catched, gui, sb, px, py) ==
  IF isMouseInside(gui, px, py) THEN "gui"
  ELSE IF sbIsMouseInside(sb, px, py) THEN "vScrollbar"
  ELSE catched

\* The handler a move at (px, py) is routed to.
MoveTarget(catched, gui, sb, px, py) ==
  IF catched # nil THEN catched
  ELSE IF isMouseInside(gui, px, py) THEN "gui"
  ELSE IF sbIsMouseInside(sb, px, py) THEN "vScrollbar"
  ELSE nil

\* The handler a button event at (mouseX, mouseY) is routed to.
ButtonTarget(catched, gui, sb, mouseX, mouseY) ==
  IF catched # nil THEN catched
  ELSE IF isMouseInside(gui, mouseX, mouseY) THEN "gui"
  ELSE IF sbIsMouseInside(sb, mouseX, mouseY) THEN "vScrollbar"
  ELSE nil

\* A capture that any button event over a widget establishes.
CaptureAtDeliveryAnyAction(catched, catchedButton, target, button, action) ==
  IF catched = nil /\ target # nil
  THEN <<target, button>>
  ELSE <<catched, catchedButton>>

\* <<catchedMouseHandler, mouseCatchedOnButton>> when the event reaches `target`.
CaptureAtDelivery(catched, catchedButton, target, button, action) ==
  IF catched = nil /\ target # nil /\ action = Press
  THEN <<target, button>>
  ELSE <<catched, catchedButton>>

\* A capture that the release of any button ends.
ReleasesCaptureAnyButton(catched, catchedButton, button, action) ==
  catched # nil /\ action = Release

\* Whether the dispatcher calls catchMouse(nil, 0) after forwarding.
ReleasesCapture(catched, catchedButton, button, action) ==
  catched # nil /\ action = Release /\ button = catchedButton

VARIABLES
  gui,                  \* the GUI's fields (see newGUI)
  vScrollbar,           \* gui.vScrollbar: the scrollbar's fields
  catchedMouseHandler,  \* gui.catchedMouseHandler
  mouseCatchedOnButton, \* gui.mouseCatchedOnButton
  mouseMode,            \* gui.terminal.GetMouseMode()
  now,                  \* time.Now(), in milliseconds
  held,                 \* the mouse buttons that are physically down
  panicked,             \* a handler panicked: the program has ended
  ev,                   \* the last operation and its arguments
  delivered,            \* the handler the last event reached, and the capture then
  calls,                \* the collaborator calls of the last operation, in order
  session               \* the history of the drag session that was opened last:
                        \* where it was pressed, its moves' heights, what it
                        \* scrolled, and whether the control's rectangle and
                        \* maxScrollPosition stayed as they were (steady)

vars == <<gui, vScrollbar, catchedMouseHandler, mouseCatchedOnButton, mouseMode,
          now, held, panicked, ev, delivered, calls, session>>

Event(op) ==
  [op |-> op, button |-> 0, action |-> "", mod |-> {}, px |-> 0, py |-> 0,
   max |-> 0, position |-> 0]

NotDelivered == [to |-> nil, catched |-> nil, button |-> 0]

NoSession ==
  [pressY |-> 0, lastY |-> 0, moves |-> 0, nonDecreasing |-> TRUE,
   nonIncreasing |-> TRUE, scrolledUp |-> FALSE, scrolledDown |-> FALSE, net |-> 0,
   steady |-> TRUE]

\* The lines a terminal call scrolls down (up: negative); pages count as 0.
LinesDown(call) ==
  IF call[1] = "ScreenScrollDown" THEN call[2]
  ELSE IF call[1] = "ScreenScrollUp" THEN -call[2]
  ELSE 0

\* The session's history after a move to py that made the calls cs.
SessionAfterMove(s, py, cs) ==
  [s EXCEPT !.lastY = py,
            !.moves = s.moves + 1,
            !.nonDecreasing = s.nonDecreasing /\ py >= s.lastY,
            !.nonIncreasing = s.nonIncreasing /\ py <= s.lastY,
            !.scrolledUp = s.scrolledUp \/ (cs # <<>> /\ cs[1][1] = "ScreenScrollUp"),
            !.scrolledDown = s.scrolledDown \/ (cs # <<>> /\ cs[1][1] = "ScreenScrollDown"),
            !.net = s.net + (IF cs = <<>> THEN 0 ELSE LinesDown(cs[1]))]

Init ==
  /\ gui \in {newGUI(c) : c \in BOOLEAN}
  /\ vScrollbar = newScrollbar
  /\ catchedMouseHandler = nil
  /\ mouseCatchedOnButton = 0
  /\ mouseMode = MouseModeNone
  /\ now = 0
  /\ held = {}
  /\ panicked = FALSE
  /\ ev = Event("new")
  /\ delivered = NotDelivered
  /\ calls = <<>>
  /\ session = NoSession

(***************************************************************************)
(* Operations                                                              *)
(***************************************************************************)
\* A session is limited to MaxMoves moves.
MaxMoves == 3

\* The clock stops at MaxNow.
MaxNow == 1000

Envs == [hint : BOOLEAN, url : BOOLEAN, text : BOOLEAN, clip : BOOLEAN,
         conv : {"wrap", "saturate"}]

\* Whether a button event on the scrollbar opens a drag session.
OpensSession(sb, button, action, mouseX, mouseY) ==
  button = MouseButtonLeft /\ action = Press /\ mouseHitTest(sb, mouseX, mouseY) = Thumb

\* globalMouseMoveCallback(w, px, py); the coordinates are the scaled ones.
globalMouseMoveCallback(px, py, envs) ==
  LET target == MoveTarget(catchedMouseHandler, gui, vScrollbar, px, py)
  IN  /\ ~panicked
      /\ IF target = "gui"
         THEN \E env \in envs :
                LET r == guiMouseMoveCallback(gui, px, py, env)
                IN  /\ gui' = r.gui
                    /\ calls' = r.calls
                    /\ UNCHANGED <<vScrollbar, session>>
         ELSE IF target = "vScrollbar"
         THEN /\ vScrollbar.thumbIsDragging => session.moves < MaxMoves
              /\ \E nd \in NewPositionDeltas(vScrollbar, py) :
                   LET r == sbMouseMoveCallback(vScrollbar, px, py, nd)
                   IN  /\ vScrollbar' = r.sb
                       /\ calls' = r.calls
                       /\ session' = IF vScrollbar.thumbIsDragging
                                     THEN SessionAfterMove(session, py, r.calls)
                                     ELSE session
              /\ UNCHANGED gui
         ELSE /\ calls' = <<>>
              /\ UNCHANGED <<gui, vScrollbar, session>>
      /\ delivered' = [to |-> target, catched |-> catchedMouseHandler,
                       button |-> mouseCatchedOnButton]
      /\ ev' = [Event("move") EXCEPT !.px = px, !.py = py]
      /\ UNCHANGED <<catchedMouseHandler, mouseCatchedOnButton, mouseMode, now,
                     held, panicked>>

\* globalMouseButtonCallback(w, button, action, mod) with the cursor at
\* (mouseX, mouseY), scaled.  A button goes down when up, and up when down.
globalMouseButtonCallback(button, action, mod, mouseX, mouseY, envs) ==
  LET target == ButtonTarget(catchedMouseHandler, gui, vScrollbar, mouseX, mouseY)
      cap == CaptureAtDelivery(catchedMouseHandler, mouseCatchedOnButton, target,
                               button, action)
      after == IF ReleasesCapture(catchedMouseHandler, mouseCatchedOnButton,
                                  button, action)
               THEN <<nil, 0>> ELSE cap
  IN  /\ ~panicked
      /\ IF action = Press THEN button \notin held ELSE button \in held
      /\ held' = IF action = Press THEN held \cup {button} ELSE held \ {button}
      /\ IF target = "gui"
         THEN \E env \in envs :
                LET r == guiMouseButtonCallback(gui, mouseMode, button, action, mod,
                                                mouseX, mouseY, now, env)
                IN  /\ gui' = r.gui
                    /\ calls' = r.calls
                    /\ panicked' = r.panic
                    \* a panic leaves the dispatcher before catchMouse(nil, 0)
                    /\ catchedMouseHandler' = IF r.panic THEN cap[1] ELSE after[1]
                    /\ mouseCatchedOnButton' = IF r.panic THEN cap[2] ELSE after[2]
                    /\ UNCHANGED <<vScrollbar, session>>
         ELSE IF target = "vScrollbar"
         THEN LET r == sbMouseButtonCallback(vScrollbar, button, action, mouseX, mouseY)
              IN  /\ vScrollbar' = r.sb
                  /\ calls' = r.calls
                  /\ session' = IF OpensSession(vScrollbar, button, action, mouseX, mouseY)
                                THEN [NoSession EXCEPT !.pressY = mouseY, !.lastY = mouseY]
                                ELSE session
                  /\ catchedMouseHandler' = after[1]
                  /\ mouseCatchedOnButton' = after[2]
                  /\ UNCHANGED <<gui, panicked>>
         ELSE /\ calls' = <<>>
              /\ catchedMouseHandler' = after[1]
              /\ mouseCatchedOnButton' = after[2]
              /\ UNCHANGED <<gui, vScrollbar, session, panicked>>
      /\ delivered' = [to |-> target, catched |-> cap[1], button |-> cap[2]]
      /\ ev' = [Event("button") EXCEPT !.button = button, !.action = action,
                                       !.mod = mod, !.px = mouseX, !.py = mouseY]
      /\ UNCHANGED <<mouseMode, now>>

\* The window is resized: gui.width, gui.height and gui.dpiScale change and
\* the scrollbar's resize(gui) runs.
Resize(width, height, dpiScale) ==
  /\ ~panicked
  /\ gui' = [gui EXCEPT !.width = width, !.height = height, !.dpiScale = dpiScale]
  /\ vScrollbar' = resize(vScrollbar, width, height, dpiScale)
  /\ session' = IF vScrollbar.thumbIsDragging /\ vScrollbar'.position # vScrollbar.position
                THEN [session EXCEPT !.steady = FALSE] ELSE session
  /\ ev' = Event("resize")
  /\ delivered' = NotDelivered
  /\ calls' = <<>>
  /\ UNCHANGED <<catchedMouseHandler, mouseCatchedOnButton, mouseMode, now, held,
                 panicked>>

\* vScrollbar.setPosition(max, position)
SetPosition(max, position) ==
  /\ ~panicked
  /\ vScrollbar' = setPosition(vScrollbar, max, position)
  /\ session' = IF /\ vScrollbar.thumbIsDragging
                   /\ vScrollbar'.maxScrollPosition # vScrollbar.maxScrollPosition
                THEN [session EXCEPT !.steady = FALSE] ELSE session
  /\ ev' = [Event("setPosition") EXCEPT !.max = max, !.position = position]
  /\ delivered' = NotDelivered
  /\ calls' = <<>>
  /\ UNCHANGED <<gui, catchedMouseHandler, mouseCatchedOnButton, mouseMode, now,
                 held, panicked>>

\* The hosted program sets the terminal's mouse mode.
SetMouseMode(mode) ==
  /\ ~panicked
  /\ mode # mouseMode
  /\ mouseMode' = mode
  /\ ev' = Event("mode")
  /\ delivered' = NotDelivered
  /\ calls' = <<>>
  /\ UNCHANGED <<gui, vScrollbar, catchedMouseHandler, mouseCatchedOnButton, now,
                 held, panicked, session>>

\* d milliseconds pass.
Tick(d) ==
  /\ ~panicked
  /\ now + d <= MaxNow
  /\ now' = now + d
  /\ ev' = Event("tick")
  /\ delivered' = NotDelivered
  /\ calls' = <<>>
  /\ UNCHANGED <<gui, vScrollbar, catchedMouseHandler, mouseCatchedOnButton,
                 mouseMode, held, panicked, session>>

(***************************************************************************)
(* Events with their arguments drawn from given sets                       *)
(***************************************************************************)
\* points: pointer positions <<px, py>>
MouseMoveEvt(points, envs) ==
  \E p \in points : globalMouseMoveCallback(p[1], p[2], envs)

MouseButtonEvt(buttons, mods, points, envs) ==
  \E button \in buttons, action \in {Press, Release}, mod \in mods, p \in points :
    globalMouseButtonCallback(button, action, mod, p[1], p[2], envs)

\* sizes: triples <<width, height, dpiScale>>
ResizeEvt(sizes) == \E s \in sizes : Resize(s[1], s[2], s[3])

\* args: pairs <<max, position>>
SetPositionEvt(args) == \E a \in args : SetPosition(a[1], a[2])

\* ds: durations in milliseconds
TickEvt(ds) == \E d \in ds : Tick(d)

SetMouseModeEvt(modes) == \E mode \in modes : SetMouseMode(mode)

\* The answers of the collaborators that the specifications below draw from.
QuietEnv == [hint |-> FALSE, url |-> FALSE, text |-> FALSE, clip |-> TRUE, conv |-> "wrap"]
BusyEnv == [hint |-> TRUE, url |-> TRUE, text |-> TRUE, clip |-> TRUE, conv |-> "saturate"]

HintEnv == [QuietEnv EXCEPT !.hint = TRUE]

(***************************************************************************)
(* Spec: the dispatcher with both widgets.  A 100 x 102 window: the        *)
(* viewport is x < 80, the scrollbar is 80 <= x < 100 and 1 <= y < 101.    *)
(* The pointer is in the viewport, on the scrollbar's bottom arrow and in  *)
(* neither; the left button goes down and up anywhere, the right button    *)
(* over the viewport; the mouse mode is a supported or an unsupported one. *)
(***************************************************************************)
Sizes == {<<100, 102, 1>>}
InViewport == <<10, 30>>
OnScrollbar == <<90, 90>>
InNeither == <<90, 0>>
Points == {InViewport, OnScrollbar, InNeither}
Modes == {MouseModeNone, MouseModeAnyEvent}

Next ==
  \/ MouseMoveEvt(Points, {QuietEnv})
  \/ MouseButtonEvt({MouseButtonLeft}, {{}}, Points, {QuietEnv})
  \/ MouseButtonEvt({MouseButtonRight}, {{}}, {InViewport}, {QuietEnv})
  \/ ResizeEvt(Sizes)
  \/ SetMouseModeEvt(Modes)

Spec == Init /\ [][Next]_vars


\* The widget whose rectangle holds the point (px, py): the viewport first.
WidgetAt(px, py) ==
  IF isMouseInside(gui, px, py) THEN "gui"
  ELSE IF sbIsMouseInside(vScrollbar, px, py) THEN "vScrollbar"
  ELSE nil

\* The last operation made a call on the viewport's move path.
ViewportMoveCalls(cs) ==
  \E i \in DOMAIN cs : cs[i][1] \in {"SetCursor", "ExtendSelection"}

(* C1: while a capture is active, every move goes to the capturing widget  *)
(* and to no other, wherever the pointer is: the move reaches the capture  *)
(* holder, the other widget's state stays as it is, a scrollbar capture    *)
(* sees none of the viewport's move calls and a viewport capture sees its  *)
(* SetCursor call; a capture of the scrollbar ends only by the release of  *)
(* the button that established it.                                         *)
C1_MovesFollowTheCapture ==
  [][ /\ (ev'.op = "move" /\ catchedMouseHandler # nil) =>
           /\ delivered'.to = catchedMouseHandler
           /\ catchedMouseHandler' = catchedMouseHandler
           /\ mouseCatchedOnButton' = mouseCatchedOnButton
           /\ catchedMouseHandler = "vScrollbar" =>
                (gui' = gui /\ ~ViewportMoveCalls(calls'))
           /\ catchedMouseHandler = "gui" =>
                (vScrollbar' = vScrollbar /\ ViewportMoveCalls(calls'))
      /\ (catchedMouseHandler = "vScrollbar" /\ catchedMouseHandler' # "vScrollbar") =>
           /\ ev'.op = "button"
           /\ ev'.action = Release
           /\ ev'.button = mouseCatchedOnButton
    ]_vars

\* A move with the pointer over the viewport reached the scrollbar, which
\* holds the capture for the left button.
C1_Witness ==
  /\ ev.op = "move"
  /\ <<ev.px, ev.py>> = InViewport
  /\ WidgetAt(ev.px, ev.py) = "gui"
  /\ delivered = [to |-> "vScrollbar", catched |-> "vScrollbar",
                  button |-> MouseButtonLeft]
  /\ catchedMouseHandler = "vScrollbar"
  /\ MouseButtonLeft \in held

C3_PressCaptures ==
  [][ /\ (ev'.op = "button" /\ ev'.action = Press /\ catchedMouseHandler = nil) =>
           LET target == WidgetAt(ev'.px, ev'.py)
           IN  /\ delivered'.to = target
               /\ delivered'.catched = target
               /\ catchedMouseHandler' = target
               /\ target # nil =>
                    /\ delivered'.button = ev'.button
                    /\ mouseCatchedOnButton' = ev'.button
               /\ target = "gui" => vScrollbar' = vScrollbar
               /\ target = "vScrollbar" => gui' = gui
               /\ target = nil =>
                    (calls' = <<>> /\ gui' = gui /\ vScrollbar' = vScrollbar)
      /\ (catchedMouseHandler = nil /\ catchedMouseHandler' # nil) =>
           (ev'.op = "button" /\ ev'.action = Press)
    ]_vars

\* The right button went down over the viewport with no button held
\* before: the viewport holds the capture for the right button.
C3_Witness ==
  /\ ev.op = "button"
  /\ ev.action = Press
  /\ ev.button = MouseButtonRight
  /\ held = {MouseButtonRight}
  /\ delivered = [to |-> "gui", catched |-> "gui", button |-> MouseButtonRight]
  /\ catchedMouseHandler = "gui"
  /\ mouseCatchedOnButton = MouseButtonRight


(***************************************************************************)
(* SpecScrollbar: the scrollbar alone.  The pointer stays in the           *)
(* scrollbar's rectangle: on the upper arrow, between the arrows (thumb or  *)
(* space, by the scroll position) and on the bottom arrow.  The right      *)
(* button goes down and up over the thumb's place.                         *)
(***************************************************************************)
ScrollbarPoints == {<<90, 10>>, <<90, 30>>, <<90, 70>>, <<90, 90>>}
ScrollbarPositionArgs == {<<100, 0>>, <<100, 100>>}

NextScrollbar ==
  \/ MouseMoveEvt(ScrollbarPoints, {QuietEnv})
  \/ MouseButtonEvt({MouseButtonLeft}, {{}}, ScrollbarPoints, {QuietEnv})
  \/ MouseButtonEvt({MouseButtonRight}, {{}}, {<<90, 30>>}, {QuietEnv})
  \/ ResizeEvt(Sizes)
  \/ SetPositionEvt(ScrollbarPositionArgs)

SpecScrollbar == Init /\ [][NextScrollbar]_vars

(* C7: a left press that reaches the scrollbar has exactly the effect of   *)
(* the part it hits: ScreenScrollUp(1) on the upper arrow,                 *)
(* ScreenScrollDown(1) on the bottom arrow, ScrollPageUp() on the upper    *)
(* space, ScrollPageDown() on the bottom space, each leaving the scrollbar *)
(* as it is; on the thumb no call, and a drag session with the start       *)
(* position, the thumb's top, the pointer's offset in the thumb and a      *)
(* cumulative delta of 0.  A press of another button calls nothing and     *)
(* leaves the scrollbar as it is.                                          *)
C7_PressEffectByPart ==
  [][ (ev'.op = "button" /\ ev'.action = Press /\ delivered'.to = "vScrollbar") =>
        LET part == mouseHitTest(vScrollbar, ev'.px, ev'.py)
        IN  IF ev'.button = MouseButtonLeft
            THEN /\ part = UpperArrow =>
                      (calls' = <<<<"ScreenScrollUp", 1>>>> /\ vScrollbar' = vScrollbar)
                 /\ part = BottomArrow =>
                      (calls' = <<<<"ScreenScrollDown", 1>>>> /\ vScrollbar' = vScrollbar)
                 /\ part = UpperSpace =>
                      (calls' = <<<<"ScrollPageUp">>>> /\ vScrollbar' = vScrollbar)
                 /\ part = BottomSpace =>
                      (calls' = <<<<"ScrollPageDown">>>> /\ vScrollbar' = vScrollbar)
                 /\ part = Thumb =>
                      /\ calls' = <<>>
                      /\ vScrollbar' =
                           [vScrollbar EXCEPT
                              !.thumbIsDragging = TRUE,
                              !.startedDraggingAtPosition = vScrollbar.scrollPosition,
                              !.startedDraggingAtThumbTop = vScrollbar.positionThumb.top,
                              !.offsetInThumbY =
                                 RSub(RSub(RInt(ev'.py), vScrollbar.position.top),
                                      vScrollbar.positionThumb.top),
                              !.scrollPositionDelta = 0]
            ELSE calls' = <<>> /\ vScrollbar' = vScrollbar
    ]_vars

\* The left button went down on the thumb at the end of the track (scroll
\* position 100 of 100, thumb top 60, pointer 9 below it): a session is
\* open and nothing was called.
C7_Witness ==
  /\ ev.op = "button"
  /\ ev.action = Press
  /\ ev.button = MouseButtonLeft
  /\ delivered.to = "vScrollbar"
  /\ calls = <<>>
  /\ vScrollbar.thumbIsDragging
  /\ vScrollbar.startedDraggingAtPosition = 100
  /\ vScrollbar.startedDraggingAtThumbTop = RInt(60)
  /\ vScrollbar.offsetInThumbY = RInt(9)
  /\ vScrollbar.scrollPositionDelta = 0

(* C8: a drag session opens only by a left press on the thumb that reaches *)
(* the scrollbar and closes only by a left release that reaches the        *)
(* scrollbar; that release closes the session and calls nothing; a move    *)
(* that reaches the scrollbar while no session is open calls nothing and   *)
(* leaves every field of the scrollbar as it is.                           *)
C8_SessionBetweenPressAndRelease ==
  [][ /\ (~vScrollbar.thumbIsDragging /\ vScrollbar'.thumbIsDragging) =>
           /\ ev'.op = "button"
           /\ ev'.button = MouseButtonLeft
           /\ ev'.action = Press
           /\ delivered'.to = "vScrollbar"
           /\ mouseHitTest(vScrollbar, ev'.px, ev'.py) = Thumb
      /\ (vScrollbar.thumbIsDragging /\ ~vScrollbar'.thumbIsDragging) =>
           /\ ev'.op = "button"
           /\ ev'.button = MouseButtonLeft
           /\ ev'.action = Release
           /\ delivered'.to = "vScrollbar"
      /\ ( /\ ev'.op = "button"
           /\ ev'.button = MouseButtonLeft
           /\ ev'.action = Release
           /\ delivered'.to = "vScrollbar" ) =>
           /\ ~vScrollbar'.thumbIsDragging
           /\ calls' = <<>>
           /\ vScrollbar' = [vScrollbar EXCEPT !.thumbIsDragging = FALSE]
      /\ (ev'.op = "move" /\ delivered'.to = "vScrollbar"
            /\ ~vScrollbar.thumbIsDragging) =>
           (calls' = <<>> /\ vScrollbar' = vScrollbar)
    ]_vars

\* A session that scrolled was closed, and a move to another height then
\* reached the scrollbar and called nothing.
C8_Witness ==
  /\ ev.op = "move"
  /\ delivered.to = "vScrollbar"
  /\ ~vScrollbar.thumbIsDragging
  /\ calls = <<>>
  /\ session.moves > 0
  /\ session.net # 0
  /\ ev.py # session.lastY
  /\ vScrollbar.scrollPositionDelta = session.net

(***************************************************************************)
(* SpecPosition: setPosition with arguments of every sign, between         *)
(* resizes (tracks of 40 and of 80 pixels) and a drag of the thumb.        *)
(***************************************************************************)
PositionSizes == {<<100, 102, 1>>, <<100, 142, 1>>}
PositionArgs == {<<0, 0>>, <<0, -3>>, <<-1, 50>>, <<100, -3>>, <<100, 200>>, <<100, 50>>}
PositionPoints == {<<90, 30>>}

NextPosition ==
  \/ SetPositionEvt(PositionArgs)
  \/ ResizeEvt(PositionSizes)
  \/ MouseMoveEvt(PositionPoints, {QuietEnv})
  \/ MouseButtonEvt({MouseButtonLeft}, {{}}, PositionPoints, {QuietEnv})

SpecPosition == Init /\ [][NextPosition]_vars

(* C9: whatever setPosition, resize and pointer events came before, the    *)
(* scrollbar has 0 <= scrollPosition <= maxScrollPosition.                 *)
C9_PositionInRange ==
  /\ 0 <= vScrollbar.scrollPosition
  /\ vScrollbar.scrollPosition <= vScrollbar.maxScrollPosition

(* C10: setPosition(max, position) stores maxScrollPosition = position and *)
(* scrollPosition = position when max <= 0; maxScrollPosition = max and    *)
(* scrollPosition = max when max > 0 and position > max;                   *)
(* maxScrollPosition = max and scrollPosition = position when max > 0 and  *)
(* position <= max.  So maxScrollPosition = 0 comes with scrollPosition =  *)
(* 0, and the zone rectangles are the ones recomputed from the stored      *)
(* values: the thumb's top is the arrow height plus the stored position's  *)
(* share of the track.                                                     *)
C10_SetPositionStores ==
  [][ ev'.op = "setPosition" =>
        LET max == ev'.max
            position == ev'.position
            sb == vScrollbar'
        IN  /\ max <= 0 =>
                 (sb.maxScrollPosition = position /\ sb.scrollPosition = position)
            /\ (max > 0 /\ position > max) =>
                 (sb.maxScrollPosition = max /\ sb.scrollPosition = max)
            /\ (max > 0 /\ position <= max) =>
                 (sb.maxScrollPosition = max /\ sb.scrollPosition = position)
            /\ sb.maxScrollPosition = 0 => sb.scrollPosition = 0
            /\ sb.position = vScrollbar.position
            /\ sb = recalcElementPositions(sb)
            /\ sb.positionThumb.top =
                 ThumbTop(sb.position, sb.scrollPosition, sb.maxScrollPosition)
            /\ RectHeight(sb.positionThumb) = RectWidth(sb.position)
    ]_vars

\* setPosition(100, 200) on a track of 80 pixels stored 100 of 100: the
\* thumb's top is at the end of the track, 20 + 80.
C10_Witness ==
  /\ ev.op = "setPosition"
  /\ ev.max = 100
  /\ ev.position = 200
  /\ vScrollbar.maxScrollPosition = 100
  /\ vScrollbar.scrollPosition = 100
  /\ RectHeight(vScrollbar.position) = RInt(140)
  /\ vScrollbar.positionThumb.top = RInt(100)

(***************************************************************************)
(* SpecDrag: drags of the thumb with the left button, on a track of 40     *)
(* pixels (height 102) and on one of 0 pixels (height 62), with            *)
(* maxScrollPosition 100 and one beyond 16 bits.                           *)
(***************************************************************************)
DragSizes == {<<100, 102, 1>>, <<100, 62, 1>>}
DragPositionArgs == {<<100, 0>>, <<200000, 0>>}
DragPoints == {<<90, 30>>, <<90, 50>>, <<90, 70>>}

NextDrag ==
  \/ MouseMoveEvt(DragPoints, {QuietEnv})
  \/ MouseButtonEvt({MouseButtonLeft}, {{}}, DragPoints, {QuietEnv})
  \/ ResizeEvt(DragSizes)
  \/ SetPositionEvt(DragPositionArgs)

SpecDrag == Init /\ [][NextDrag]_vars

\* A session is open, has seen a move, and the control's rectangle and
\* maxScrollPosition are the ones it was opened with; the track is H > 0.
SteadyDrag ==
  /\ vScrollbar.thumbIsDragging
  /\ session.steady
  /\ session.moves > 0
  /\ DragDivisor(vScrollbar).n > 0

(* C4: in a drag session with maxScrollPosition = 100 on a track of H      *)
(* pixels, after the pointer (and with it the thumb's top) has gone from   *)
(* its place at the press to D pixels below it, the lines scrolled down    *)
(* minus the lines scrolled up are round(100 * D / H), give or take one;   *)
(* with D = 0 they are 0.                                                  *)
C4_DragScrollsInProportion ==
  (SteadyDrag /\ vScrollbar.maxScrollPosition = 100) =>
    LET D == session.lastY - session.pressY
        H == DragDivisor(vScrollbar)
    IN  /\ Abs(session.net - Round(100 * D * H.d, H.n)) <= 1
        /\ D = 0 => session.net = 0

(* C5: a drag session whose moves never go up emits no ScreenScrollUp, and *)
(* one whose moves never go down emits no ScreenScrollDown.                *)
C5_MonotonicDragScrollsOneWay ==
  SteadyDrag =>
    /\ session.nonDecreasing => ~session.scrolledUp
    /\ session.nonIncreasing => ~session.scrolledDown

(* C6: a move in an open drag session, with delta = trunc(max *            *)
(* (newThumbTop - minThumbTop - startThumbTop) / (maxThumbTop -            *)
(* minThumbTop)), emits exactly ScreenScrollDown(delta - cumulativeDelta)  *)
(* if delta is the greater, exactly ScreenScrollUp(cumulativeDelta -       *)
(* delta) if it is the smaller, nothing if they are equal, and leaves      *)
(* cumulativeDelta = delta; so the lines scrolled down minus the lines     *)
(* scrolled up in the session are scrollPositionDelta.  Stated for the     *)
(* sessions on a track of H > 0 pixels whose control rectangle and         *)
(* maxScrollPosition stay as they were at the press.                       *)
C6_MoveEmitsTheDifference ==
  [][ ( /\ ev'.op = "move"
        /\ delivered'.to = "vScrollbar"
        /\ vScrollbar.thumbIsDragging
        /\ session.steady
        /\ DragDivisor(vScrollbar).n > 0 ) =>
        LET x == DragOffset(vScrollbar, ev'.py)
            h == DragDivisor(vScrollbar)
            delta == Trunc(vScrollbar.maxScrollPosition * x.n * h.d, x.d * h.n)
            cumulativeDelta == vScrollbar.scrollPositionDelta
        IN  /\ calls' = IF delta > cumulativeDelta
                        THEN <<<<"ScreenScrollDown", delta - cumulativeDelta>>>>
                        ELSE IF delta < cumulativeDelta
                        THEN <<<<"ScreenScrollUp", cumulativeDelta - delta>>>>
                        ELSE <<>>
            /\ vScrollbar'.scrollPositionDelta = delta
            /\ session'.net = vScrollbar'.scrollPositionDelta
    ]_vars


(***************************************************************************)
(* SpecGeometry: the scrollbar's rectangles under resizes to a tall, a     *)
(* short (control lower than its three squares), an empty and a            *)
(* double-density window, with scroll ranges of 4 and 100.  The left       *)
(* button goes down and up on the scrollbar and above it, the right button *)
(* on it; there are no moves.                                              *)
(***************************************************************************)
GeometrySizes == {<<100, 102, 1>>, <<100, 42, 1>>, <<100, 0, 1>>, <<100, 142, 2>>}
GeometryArgs == {<<4, 1>>, <<4, 4>>, <<100, 50>>}
GeometryPoints == {<<90, 30>>, <<90, 0>>}

NextGeometry ==
  \/ ResizeEvt(GeometrySizes)
  \/ SetPositionEvt(GeometryArgs)
  \/ MouseButtonEvt({MouseButtonLeft}, {{}}, GeometryPoints, {QuietEnv})
  \/ MouseButtonEvt({MouseButtonRight}, {{}}, {<<90, 30>>}, {QuietEnv})

SpecGeometry == Init /\ [][NextGeometry]_vars

(* C11: for the control rectangle a resize has set and a scroll range      *)
(* max > 0, the thumb's top is non-decreasing in the position over         *)
(* [0, max], is the arrow height at position 0 and the control's height    *)
(* less the arrow's and the thumb's at position max, and so lies between   *)
(* the two arrow zones for every position of the range.  Stated for the   *)
(* control rectangles whose bottom is not above their top.                 *)
C11_ThumbTopMonotone ==
  ( /\ ev.op # "new"
    /\ vScrollbar.maxScrollPosition > 0
    /\ RLe(vScrollbar.position.top, vScrollbar.position.bottom) ) =>
    LET position == vScrollbar.position
        max == vScrollbar.maxScrollPosition
        arrowHeight == RectWidth(position)
        thumbHeight == RectWidth(position)
        top(p) == ThumbTop(position, p, max)
    IN  /\ \A p1, p2 \in 0..max : p1 <= p2 => RLe(top(p1), top(p2))
        /\ top(0) = arrowHeight
        /\ top(max) = RSub(RSub(RectHeight(position), arrowHeight), thumbHeight)
        /\ \A p \in 0..max :
             /\ RLe(arrowHeight, top(p))
             /\ RLe(RAdd(top(p), thumbHeight), RSub(RectHeight(position), arrowHeight))

\* The zone of the control-local point (x, y), in the order of the claim.
ZoneOf(sb, x, y) ==
  LET ua == sb.positionUpperArrow
      ba == sb.positionBottomArrow
      th == sb.positionThumb
      in(l, t, r, b) == /\ RLe(l, x) /\ RLt(x, r) /\ RLe(t, y) /\ RLt(y, b)
  IN  IF in(ua.left, ua.top, ua.right, ua.bottom) THEN UpperArrow
      ELSE IF in(ba.left, ba.top, ba.right, ba.bottom) THEN BottomArrow
      ELSE IF in(th.left, th.bottom, th.right, ba.top) THEN BottomSpace
      ELSE IF in(th.left, ua.bottom, th.right, th.top) THEN UpperSpace
      ELSE Thumb

\* Window points on and around the scrollbars of GeometrySizes.
HitGrid == {50, 90} \X {0, 10, 30, 50, 70, 90, 120}

(* C12: mouseHitTest takes the point to control-local coordinates and      *)
(* answers UpperArrow inside the upper arrow, else BottomArrow inside the  *)
(* bottom arrow, else BottomSpace between the thumb's bottom and the       *)
(* bottom arrow, else UpperSpace between the upper arrow and the thumb's   *)
(* top, else Thumb: so Thumb for a point outside the control, and Thumb    *)
(* for a point of the thumb that is in no arrow.  After a left press that  *)
(* reached the scrollbar, what it did is what that zone stands for (a      *)
(* press leaves the rectangles as they are).                               *)
C12_HitTestZones ==
  LET sb == vScrollbar
      x(p) == RSub(RInt(p[1]), sb.position.left)
      y(p) == RSub(RInt(p[2]), sb.position.top)
  IN  /\ \A p \in HitGrid :
           /\ mouseHitTest(sb, p[1], p[2]) = ZoneOf(sb, x(p), y(p))
           /\ ( /\ isInside(sb.positionThumb, x(p), y(p))
                /\ ~isInside(sb.positionUpperArrow, x(p), y(p))
                /\ ~isInside(sb.positionBottomArrow, x(p), y(p)) ) =>
                mouseHitTest(sb, p[1], p[2]) = Thumb
      /\ ( /\ ev.op = "button"
           /\ ev.button = MouseButtonLeft
           /\ ev.action = Press
           /\ delivered.to = "vScrollbar" ) =>
           LET zone == ZoneOf(sb, x(<<ev.px, ev.py>>), y(<<ev.px, ev.py>>))
           IN  /\ zone = Thumb => (sb.thumbIsDragging /\ calls = <<>>)
               /\ zone = UpperArrow => calls = <<<<"ScreenScrollUp", 1>>>>
               /\ zone = BottomArrow => calls = <<<<"ScreenScrollDown", 1>>>>
               /\ zone = UpperSpace => calls = <<<<"ScrollPageUp">>>>
               /\ zone = BottomSpace => calls = <<<<"ScrollPageDown">>>>

\* The scrollbar holds the capture for the right button, and the left
\* button went down above the control's rectangle: the press was taken for
\* one on the thumb, and a drag session is open.
C12_Witness ==
  /\ ev.op = "button"
  /\ ev.button = MouseButtonLeft
  /\ ev.action = Press
  /\ delivered.to = "vScrollbar"
  /\ delivered.button = MouseButtonRight
  /\ RectHeight(vScrollbar.position) = RInt(100)
  /\ ~sbIsMouseInside(vScrollbar, ev.px, ev.py)
  /\ mouseHitTest(vScrollbar, ev.px, ev.py) = Thumb
  /\ vScrollbar.thumbIsDragging
  /\ vScrollbar.offsetInThumbY = RInt(-21)
  /\ calls = <<>>

(* C20: a resize to a container of non-negative size and positive          *)
(* dpiScale leaves the control's rectangle at left = width - 20 *          *)
(* dpiScale, top = 1, right = width, bottom = height - 1, with right >=    *)
(* left and bottom >= top, and the upper arrow's, the bottom arrow's and   *)
(* the thumb's rectangles have right >= left and bottom >= top as well.    *)
C20_RectanglesOrdered ==
  LET ordered(sr) == RLe(sr.left, sr.right) /\ RLe(sr.top, sr.bottom)
  IN  (ev.op = "resize" /\ gui.width >= 0 /\ gui.height >= 0 /\ gui.dpiScale > 0) =>
        /\ vScrollbar.position =
             [left |-> RInt(gui.width - 20 * gui.dpiScale), top |-> RInt(1),
              right |-> RInt(gui.width), bottom |-> RInt(gui.height - 1)]
        /\ ordered(vScrollbar.position)
        /\ ordered(vScrollbar.positionUpperArrow)
        /\ ordered(vScrollbar.positionBottomArrow)
        /\ ordered(vScrollbar.positionThumb)


(***************************************************************************)
(* SpecClicks: left clicks on two cells of the viewport, (0, 0) and        *)
(* (1, 0), 0, 100, 400, 500 or more milliseconds apart.                    *)
(***************************************************************************)
ClickPoints == {<<5, 5>>, <<15, 5>>}
ClickTicks == {100, 400}

NextClicks ==
  \/ MouseButtonEvt({MouseButtonLeft}, {{}}, ClickPoints, {QuietEnv})
  \/ TickEvt(ClickTicks)
  \/ ResizeEvt(Sizes)

SpecClicks == Init /\ [][NextClicks]_vars

(* C13: a left press on the viewport counts 1 if it is the first, if its   *)
(* cell differs from the previous press's, or if it comes 500 ms or more   *)
(* after it; otherwise min(previous count + 1, 3).  The count is 1, 2 or   *)
(* 3, it is the one the selection is started with, and the stored cell     *)
(* and time are then those of this press.                                  *)
C13_ClickCount ==
  [][ ( /\ ev'.op = "button"
        /\ ev'.button = MouseButtonLeft
        /\ ev'.action = Press
        /\ delivered'.to = "gui"
        /\ ~gui.overlay ) =>
        LET x == ev'.px \div CellWidth
            y == ev'.py \div CellHeight
            first == gui.leftClickCount = 0
            count == IF first THEN 1
                     ELSE IF <<x, y>> # <<gui.prevLeftClickX, gui.prevLeftClickY>> THEN 1
                     ELSE IF now - gui.leftClickTime >= 500 THEN 1
                     ELSE IF gui.leftClickCount + 1 < 3 THEN gui.leftClickCount + 1
                     ELSE 3
        IN  /\ gui'.leftClickCount = count
            /\ count \in {1, 2, 3}
            /\ calls'[1] = <<"StartSelection", x, y,
                             CASE count = 1 -> "SelectionChar"
                               [] count = 2 -> "SelectionWord"
                               [] count = 3 -> "SelectionLine">>
            /\ gui'.prevLeftClickX = x
            /\ gui'.prevLeftClickY = y
            /\ gui'.leftClickTime = now
    ]_vars

\* The left button went down on cell (1, 0) at 300 ms and was counted as
\* the third click or a later one of its series: a line selection.
C13_Witness ==
  /\ ev.op = "button"
  /\ ev.button = MouseButtonLeft
  /\ ev.action = Press
  /\ delivered.to = "gui"
  /\ now = 300
  /\ gui.leftClickCount = 3
  /\ gui.leftClickTime = 300
  /\ <<gui.prevLeftClickX, gui.prevLeftClickY>> = <<1, 0>>
  /\ calls = <<<<"StartSelection", 1, 0, "SelectionLine">>>>


(***************************************************************************)
(* SpecX10: the left and right buttons on the viewport in modes None and   *)
(* X10.  The window is 1000 wide, so that the pointer reaches cell (0, 0)   *)
(* and column 95, whose one-indexed value plus 32 is 128.                  *)
(***************************************************************************)
X10Sizes == {<<1000, 102, 1>>}
Cell00 == <<5, 5>>
FarCell == <<955, 5>>

NextX10 ==
  \/ MouseButtonEvt({MouseButtonLeft, MouseButtonRight}, {{}, {ModShift}}, {Cell00},
                    {QuietEnv})
  \/ MouseButtonEvt({MouseButtonLeft}, {{}}, {FarCell}, {QuietEnv})
  \/ MouseMoveEvt({Cell00}, {QuietEnv, HintEnv})
  \/ SetMouseModeEvt({MouseModeNone, MouseModeX10})
  \/ ResizeEvt(X10Sizes)

SpecX10 == Init /\ [][NextX10]_vars

\* The packets that the calls cs write to the terminal, in order.
Writes(cs) == SelectSeq(cs, LAMBDA c : c[1] = "Write")

\* The zero-indexed cell of the last event's pointer position.
CellOf(e) == <<e.px \div CellWidth, e.py \div CellHeight>>

(* C14: in mode X10 a button press at zero-indexed cell (x, y) that the    *)
(* viewport handles (no overlay is shown) writes exactly one packet, the   *)
(* six bytes ESC '[' 'M' button+32 x+1+32 y+1+32, and a release writes     *)
(* nothing; a left press at cell (0, 0) writes 1B 5B 4D 20 21 21.          *)
C14_X10Packet ==
  [][ ( /\ ev'.op = "button"
        /\ delivered'.to = "gui"
        /\ mouseMode = MouseModeX10
        /\ ~gui.overlay ) =>
        LET x == CellOf(ev')[1]
            y == CellOf(ev')[2]
        IN  /\ ev'.action = Press =>
                 Writes(calls') =
                   <<<<"Write", <<27, 91, 77, ev'.button + 32, x + 1 + 32, y + 1 + 32>>>>>>
            /\ ev'.action = Release => Writes(calls') = <<>>
            /\ (ev'.action = Press /\ ev'.button = MouseButtonLeft /\ <<x, y>> = <<0, 0>>) =>
                 Writes(calls') = <<<<"Write", <<27, 91, 77, 32, 33, 33>>>>>>
    ]_vars

(* C15: every packet that the viewport's button handler writes is exactly  *)
(* six bytes long, ESC '[' 'M' Cb Cx Cy, with Cx = column + 1 + 32 and     *)
(* Cy = row + 1 + 32 as byte values, for every cell of the viewport.       *)
C15_PacketsAreSixBytes ==
  (ev.op = "button" /\ delivered.to = "gui") =>
    \A i \in 1..Len(Writes(calls)) :
      LET packet == Writes(calls)[i][2]
      IN  /\ Len(packet) = 6
          /\ <<packet[1], packet[2], packet[3]>> = <<27, 91, 77>>
          /\ packet[5] = CellOf(ev)[1] + 1 + 32
          /\ packet[6] = CellOf(ev)[2] + 1 + 32
          /\ \A k \in 1..6 : packet[k] \in 0..255

(***************************************************************************)
(* SpecVT200: four buttons with modifiers on cell (0, 0) of the viewport   *)
(* in modes None and VT200.  A move over a hint opens the overlay.         *)
(***************************************************************************)
VT200Mods == {{}, {ModShift}, {ModSuper}, {ModControl}, {ModAlt},
              {ModShift, ModSuper, ModControl, ModAlt}}

NextVT200 ==
  \/ MouseButtonEvt({MouseButtonLeft}, VT200Mods, {Cell00}, {QuietEnv})
  \/ MouseButtonEvt({MouseButtonRight, MouseButtonMiddle, MouseButton4},
                    {{}, {ModShift, ModControl}}, {Cell00}, {QuietEnv})
  \/ MouseMoveEvt({Cell00}, {QuietEnv, HintEnv})
  \/ SetMouseModeEvt({MouseModeVT200})
  \/ ResizeEvt(Sizes)

SpecVT200 == Init /\ [][NextVT200]_vars

\* Whether the bit of value v is set in the number n.
BitSet(n, v) == (n \div v) % 2 = 1

(* C16: in mode VT200 a press that the viewport handles (no overlay is     *)
(* shown) writes one packet whose Cb has low two bits 0 for the left       *)
(* button, 1 for the middle button and 2 for the right button, bit 4 set   *)
(* iff Shift is held, 8 iff Super, 16 iff Control, and the coordinates of  *)
(* X10; a press of any other button writes nothing.                        *)
C16_VT200PressButtonBits ==
  [][ ( /\ ev'.op = "button"
        /\ ev'.action = Press
        /\ delivered'.to = "gui"
        /\ mouseMode = MouseModeVT200
        /\ ~gui.overlay ) =>
        IF ev'.button \in {MouseButtonLeft, MouseButtonMiddle, MouseButtonRight}
        THEN /\ Len(Writes(calls')) = 1
             /\ LET packet == Writes(calls')[1][2]
                    Cb == packet[4] - 32
                IN  /\ Len(packet) = 6
                    /\ <<packet[1], packet[2], packet[3]>> = <<27, 91, 77>>
                    /\ Cb % 4 = CASE ev'.button = MouseButtonLeft -> 0
                                  [] ev'.button = MouseButtonMiddle -> 1
                                  [] ev'.button = MouseButtonRight -> 2
                    /\ BitSet(Cb, 4) <=> ModShift \in ev'.mod
                    /\ BitSet(Cb, 8) <=> ModSuper \in ev'.mod
                    /\ BitSet(Cb, 16) <=> ModControl \in ev'.mod
                    /\ packet[5] = CellOf(ev')[1] + 1 + 32
                    /\ packet[6] = CellOf(ev')[2] + 1 + 32
        ELSE Writes(calls') = <<>>
    ]_vars

\* What a release in mode VT200 must write: one packet with Cb = 3 + the
\* modifier bits.
ReleasePacketWritten(e, cs) ==
  /\ Len(Writes(cs)) = 1
  /\ Writes(cs)[1][2][4] - 32 =
       3 + (IF ModShift \in e.mod THEN 4 ELSE 0)
         + (IF ModSuper \in e.mod THEN 8 ELSE 0)
         + (IF ModControl \in e.mod THEN 16 ELSE 0)

(* C17 as stated: in mode VT200 every button release delivered to the      *)
(* viewport writes exactly one packet whose Cb is 3 plus the modifier      *)
(* bits, whichever button was released.                                    *)
C17_VT200ReleaseAlways ==
  [][ ( /\ ev'.op = "button"
        /\ ev'.action = Release
        /\ delivered'.to = "gui"
        /\ mouseMode = MouseModeVT200 ) =>
        ReleasePacketWritten(ev', calls')
    ]_vars

(* C17: in mode VT200, while no overlay is shown, every button release     *)
(* delivered to the viewport writes exactly one packet whose Cb is 3 plus  *)
(* the modifier bits (Shift 4, Super 8, Control 16), whichever button was  *)
(* released, also one whose press writes nothing; while an overlay is      *)
(* shown a release writes nothing.                                         *)
C17_VT200Release ==
  [][ ( /\ ev'.op = "button"
        /\ ev'.action = Release
        /\ delivered'.to = "gui"
        /\ mouseMode = MouseModeVT200 ) =>
        IF gui.overlay
        THEN Writes(calls') = <<>>
        ELSE ReleasePacketWritten(ev', calls')
    ]_vars

\* The fourth button, whose press writes nothing, was released with Shift
\* and Control held: one packet with Cb = 3 + 4 + 16 was written.
C17_Witness ==
  /\ ev.op = "button"
  /\ ev.action = Release
  /\ ev.button = MouseButton4
  /\ ev.mod = {ModShift, ModControl}
  /\ delivered.to = "gui"
  /\ mouseMode = MouseModeVT200
  /\ calls = <<<<"Write", <<27, 91, 77, 32 + 23, 33, 33>>>>>>

(***************************************************************************)
(* SpecModes: the left and right buttons and moves on cell (0, 0) of the   *)
(* viewport in every mouse mode.                                           *)
(***************************************************************************)
NextModes ==
  \/ MouseButtonEvt({MouseButtonLeft, MouseButtonRight}, {{}, {ModShift}}, {Cell00},
                    {QuietEnv})
  \/ MouseMoveEvt({Cell00}, {QuietEnv, HintEnv})
  \/ SetMouseModeEvt(MouseModes)
  \/ ResizeEvt(Sizes)

SpecModes == Init /\ [][NextModes]_vars


(* C18 as stated: in an unsupported mouse mode (Highlight, ButtonEvent,    *)
(* AnyEvent or a value outside the enum) every button event delivered to   *)
(* the viewport ends in a panic and writes no protocol bytes.              *)
C18_UnsupportedModeAlwaysPanics ==
  [][ ( /\ ev'.op = "button"
        /\ delivered'.to = "gui"
        /\ mouseMode \notin {MouseModeNone, MouseModeX10, MouseModeVT200} ) =>
        /\ panicked'
        /\ Writes(calls') = <<>>
    ]_vars

(* C18: in an unsupported mouse mode (Highlight, ButtonEvent, AnyEvent or  *)
(* a value outside the enum) every button event delivered to the viewport  *)
(* while no overlay is shown ends in a panic, and none writes protocol     *)
(* bytes; while an overlay is shown the event ends without a panic.        *)
C18_UnsupportedModePanics ==
  [][ ( /\ ev'.op = "button"
        /\ delivered'.to = "gui"
        /\ mouseMode \notin {MouseModeNone, MouseModeX10, MouseModeVT200} ) =>
        /\ panicked' <=> ~gui.overlay
        /\ Writes(calls') = <<>>
    ]_vars

\* A left press in a mode outside the enum started a selection and ended
\* in a panic.
C18_Witness ==
  /\ panicked
  /\ mouseMode = MouseModeOther
  /\ ev.op = "button"
  /\ ev.button = MouseButtonLeft
  /\ ev.action = Press
  /\ delivered.to = "gui"
  /\ calls = <<<<"StartSelection", 0, 0, "SelectionChar">>>>

(* C19: while the mouse mode is None no pointer event (press, release or   *)
(* move) writes protocol bytes to the terminal, and in every mode no move  *)
(* does.                                                                   *)
C19_NoneAndMovesWriteNothing ==
  [][ /\ (ev'.op \in {"button", "move"} /\ mouseMode = MouseModeNone) =>
           Writes(calls') = <<>>
      /\ ev'.op = "move" => Writes(calls') = <<>>
    ]_vars

\* A move with the left button down in mode VT200 extended the selection
\* and wrote nothing.
C19_Witness ==
  /\ ev.op = "move"
  /\ delivered.to = "gui"
  /\ mouseMode = MouseModeVT200
  /\ gui.mouseDown
  /\ calls = <<<<"ExtendSelection", 0, 0, FALSE>>, <<"SetCursor", "arrow">>>>


\* The calls among cs that scroll the terminal.
ScrollCalls(cs) ==
  SelectSeq(cs, LAMBDA c : c[1] \in {"ScreenScrollUp", "ScreenScrollDown",
                                     "ScrollPageUp", "ScrollPageDown"})

(* C21: under any interleaving of presses and releases of several buttons, *)
(* an open drag session (thumbIsDragging) implies that the dispatcher's    *)
(* capture is the scrollbar; so a move delivered without a capture never   *)
(* emits a scroll command.                                                 *)
C21_DragImpliesCapture ==
  /\ vScrollbar.thumbIsDragging => catchedMouseHandler = "vScrollbar"
  /\ (ev.op = "move" /\ delivered.catched = nil) => ScrollCalls(calls) = <<>>


(* C22: a button event on the viewport that ends in the unsupported-mode   *)
(* panic has no other effect: mouseDown, the click state (cell, time,      *)
(* count), the selection, the clipboard and the bytes written to the       *)
(* terminal are after the event what they were before it.                  *)
C22_PanicHasNoOtherEffect ==
  [][ ( /\ ev'.op = "button"
        /\ delivered'.to = "gui"
        /\ panicked' ) =>
        /\ gui'.mouseDown = gui.mouseDown
        /\ gui'.leftClickCount = gui.leftClickCount
        /\ gui'.prevLeftClickX = gui.prevLeftClickX
        /\ gui'.prevLeftClickY = gui.prevLeftClickY
        /\ gui'.leftClickTime = gui.leftClickTime
        /\ calls' = <<>>
    ]_vars


(* C23: whenever a move is processed with an open drag session, the        *)
(* divisor maxThumbTop - minThumbTop of the delta, which is the control's  *)
(* height less three times its width, is strictly positive, for every      *)
(* window size that resize accepts.                                        *)
C23_DragDivisorPositive ==
  (ev.op = "move" /\ delivered.to = "vScrollbar" /\ vScrollbar.thumbIsDragging) =>
    /\ DragDivisor(vScrollbar) =
         RSub(RectHeight(vScrollbar.position),
              RInt(3 * getDefaultScrollbarWidth * gui.dpiScale))
    /\ RLt(RInt(0), DragDivisor(vScrollbar))


(***************************************************************************)
(* SpecRelease: left clicks on two cells of the viewport, with and without *)
(* selected text and a URL under the pointer, with copy-and-paste by mouse *)
(* enabled or not.  A move over a hint opens the overlay.                  *)
(***************************************************************************)
ReleaseEnvs == {e \in Envs : ~e.hint /\ e.clip /\ e.conv = "wrap"}

NextRelease ==
  \/ MouseButtonEvt({MouseButtonLeft}, {{}}, ClickPoints, ReleaseEnvs)
  \/ MouseMoveEvt(ClickPoints, {QuietEnv, HintEnv})
  \/ ResizeEvt(Sizes)

SpecRelease == Init /\ [][NextRelease]_vars

\* Whether the calls cs hold a call of the given name.
Called(cs, name) == \E i \in 1..Len(cs) : cs[i][1] = name

(* C24: on a left release delivered to the viewport with no overlay shown, *)
(* at most one of the two happens: the selected text is copied to the      *)
(* clipboard, or the URL under the pointer is launched; the URL is         *)
(* launched only if no copy happened (copy with the mouse is disabled or   *)
(* the selected text is empty) and the URL at the cell is not empty.       *)
(* Checked on the event's calls, and on the handler's calls for every      *)
(* answer of the collaborators in the state before the event.              *)
C24_CopyOrLaunchNotBoth ==
  [][ ( /\ ev'.op = "button"
        /\ ev'.button = MouseButtonLeft
        /\ ev'.action = Release
        /\ delivered'.to = "gui"
        /\ ~gui.overlay ) =>
        /\ ~(Called(calls', "SetClipboardString") /\ Called(calls', "launchTarget"))
        /\ \E env \in Envs :
             calls' = guiMouseButtonCallback(gui, mouseMode, ev'.button, ev'.action,
                                             ev'.mod, ev'.px, ev'.py, now, env).calls
        /\ \A env \in Envs :
             LET cs == guiMouseButtonCallback(gui, mouseMode, ev'.button, ev'.action,
                                              ev'.mod, ev'.px, ev'.py, now, env).calls
                 copied == Called(cs, "SetClipboardString")
                 launched == Called(cs, "launchTarget")
             IN  /\ ~(copied /\ launched)
                 /\ copied <=> (gui.CopyAndPasteWithMouse /\ env.text)
                 /\ launched <=> /\ ~gui.CopyAndPasteWithMouse \/ ~env.text
                                 /\ env.url
    ]_vars

\* With copy and paste by mouse enabled, a left release launched the URL
\* under it: no text was selected, and nothing was copied.
C24_Witness ==
  /\ ev.op = "button"
  /\ ev.button = MouseButtonLeft
  /\ ev.action = Release
  /\ delivered.to = "gui"
  /\ gui.CopyAndPasteWithMouse
  /\ Called(calls, "launchTarget")
  /\ ~Called(calls, "SetClipboardString")


(* C25: while an overlay is shown, every button event delivered to the     *)
(* viewport leaves mouseDown, the click state and the selection as they    *)
(* are, writes no protocol bytes and does not panic, in any mouse mode;    *)
(* its only possible effect is that a right release removes the overlay.   *)
C25_OverlaySwallowsButtons ==
  [][ ( /\ ev'.op = "button"
        /\ delivered'.to = "gui"
        /\ gui.overlay ) =>
        /\ calls' = <<>>
        /\ ~panicked'
        /\ gui' = IF ev'.button = MouseButtonRight /\ ev'.action = Release
                  THEN [gui EXCEPT !.overlay = FALSE]
                  ELSE gui
    ]_vars

\* With the overlay shown and the mouse mode AnyEvent, a left release was
\* delivered to the viewport: no panic, no call, the overlay still shown.
C25_Witness ==
  /\ ev.op = "button"
  /\ ev.button = MouseButtonLeft
  /\ ev.action = Release
  /\ delivered.to = "gui"
  /\ gui.overlay
  /\ mouseMode = MouseModeAnyEvent
  /\ ~panicked
  /\ calls = <<>>


\* Whether the cell c = <<x, y>> lies in the viewport's grid of whole cells.
InGrid(g, c) ==
  /\ 0 <= c[1] /\ c[1] < RendererArea(g).areaWidth \div CellWidth
  /\ 0 <= c[2] /\ c[2] < RendererArea(g).areaHeight \div CellHeight

(* C26: every cell (x, y) that the viewport passes to the buffer           *)
(* (StartSelection, ExtendSelection, GetURLAtPosition, GetHintAtPosition)  *)
(* or encodes into a packet has 0 <= x < columns and 0 <= y < rows of the  *)
(* viewport, for every pointer position at which the viewport receives an  *)
(* event, also one outside its rectangle that reaches it through a         *)
(* capture.                                                                *)
C26_CellsInsideTheViewport ==
  (ev.op \in {"move", "button"} /\ delivered.to = "gui") =>
    /\ \A i \in 1..Len(calls) :
         /\ calls[i][1] \in {"StartSelection", "ExtendSelection"} =>
              InGrid(gui, <<calls[i][2], calls[i][3]>>)
         /\ (calls[i][1] = "Write" /\ Len(calls[i][2]) = 6) =>
              InGrid(gui, <<calls[i][2][5] - 33, calls[i][2][6] - 33>>)
    \* a move asks for the hint or the URL at the cell of the pointer
    /\ ev.op = "move" =>
         \A conv \in {"wrap", "saturate"} :
           InGrid(gui, convertMouseCoordinates(gui, ev.px, ev.py, conv))

=============================================================================
